---- MODULE Spec2Model ----
(***************************************************************************)
(* DTEK outage-schedule monitor: the schedule extractor, the schedule diff *)
(* (_compare_schedules) and the per-user monitoring loop of                *)
(* DTEKMonitorService, modelled from services/parsers/dtek_parser.py and   *)
(* services/dtek_monitor_service.py; the parser factory and the parsers'   *)
(* entry points, from services/parsers/.                                   *)
(***************************************************************************)
EXTENDS Integers, Sequences, FiniteSets, TLC

VARIABLES
    now,                 \* wall clock (Europe/Kiev), minutes since midnight
    user_addresses,      \* DTEKMonitorService.user_addresses: user -> address
    parser,              \* DTEKMonitorService.parser: 0 (None) or a parser id
    parsers,             \* the DTEKParser objects: id -> state, config, cache
    monitoring_tasks,    \* DTEKMonitorService.monitoring_tasks: user -> task
    last_notifications,  \* DTEKMonitorService.last_notifications
    tasks,               \* the coroutines: monitoring loops and requests
    running,             \* the task that runs between two awaits, 0 if none
    event,               \* what the last step sent or logged
    notified,            \* history: when an upcoming notice last went out
    stopped,             \* history: users stop_monitoring has stopped
    d_old,        \* diff harness: old_schedule argument of _compare_schedules
    d_new,        \* diff harness: new_schedule argument
    d_changes,    \* diff harness: the list _compare_schedules returned
    d_pc,         \* diff harness: "idle", "start" before the call, "done"
    call,         \* parser harness: a create_parser / login / parse call
    wp,           \* report harness: the table and the result of parse_reports
    sn            \* scan harness: one scan of today's slots for upcoming ones

diffVars == <<d_old, d_new, d_changes, d_pc, call, wp, sn>>

monVars == <<now, user_addresses, parser, parsers, monitoring_tasks,
             last_notifications, tasks, running, event, notified, stopped>>

vars == <<monVars, diffVars>>

(***************************************************************************)
(* Bounds and input domains                                                *)
(***************************************************************************)
\* most rows of the schedule table on a page
MaxRows == 2

\* texts of the first cell of a table row (the date cell)
DateTexts == {"21.11", "22.11"}

\* texts of the header cells after the first (one per time column)
TimeHeaders == <<"00:30-01:00", "18:00-18:30">>

Range(s) == {s[i] : i \in 1..Len(s)}

SeqsUpTo(S, n) == UNION {[1..k -> S] : k \in 0..n}

(***************************************************************************)
(* The page: a header row and table rows; a row is its date cell text and, *)
(* per further cell, whether the cell holds a shutdown icon.               *)
(***************************************************************************)
Rows(dates, headers) ==
    [date_text : dates, cells : [1..Len(headers) -> BOOLEAN]]

Pages(dates, headers, n) ==
    [headers : {headers}, rows : SeqsUpTo(Rows(dates, headers), n)]

\* DTEKParser._parse_date: "dd.mm..." becomes "<current year>-mm-dd", any
\* other text is returned as it is.
_parse_date(date_text) ==
    CASE date_text = "21.11" -> "2024-11-21"
      [] date_text = "22.11" -> "2024-11-22"
      [] OTHER -> date_text

\* the label of time column i: its header, or "Slot i" past the headers
SlotLabel(headers, i) ==
    IF i <= Len(headers) THEN headers[i]
    ELSE CASE i = 1 -> "Slot 1" [] i = 2 -> "Slot 2" [] i = 3 -> "Slot 3"
           [] OTHER -> "Slot n"

RECURSIVE RowShutdowns(_, _, _)
\* the labels of the cells i.. of a row that hold an icon, in column order
RowShutdowns(headers, cells, i) ==
    IF i > Len(cells) THEN << >>
    ELSE (IF cells[i] THEN <<SlotLabel(headers, i)>> ELSE << >>)
         \o RowShutdowns(headers, cells, i + 1)

\* one entry of the schedule list, as _parse_schedule_table appends it
DayEntry(headers, row) ==
    LET shutdowns == RowShutdowns(headers, row.cells, 1)
    IN [date |-> _parse_date(row.date_text),
        date_text |-> row.date_text,
        has_shutdowns |-> Len(shutdowns) > 0,
        shutdown_times |-> shutdowns]

RECURSIVE ParseRows(_, _, _)
ParseRows(headers, rows, i) ==
    IF i > Len(rows) THEN << >>
    ELSE (IF Len(rows[i].cells) < 1 THEN << >>
          ELSE <<DayEntry(headers, rows[i])>>)
         \o ParseRows(headers, rows, i + 1)

\* DTEKParser._parse_schedule_table on a page whose table was found
_parse_schedule_table(page) == ParseRows(page.headers, page.rows, 1)

\* every schedule list the extractor can produce from a page of the harness
Schedules ==
    {_parse_schedule_table(p) : p \in Pages(DateTexts, TimeHeaders, MaxRows)}

(***************************************************************************)
(* DTEKParser._compare_schedules                                           *)
(***************************************************************************)
DatesOf(schedule) == {schedule[i].date : i \in 1..Len(schedule)}

\* old_by_date = {day["date"]: day for day in old_schedule}: the last entry
\* of a date is the one the dictionary keeps
OldByDate(old_schedule, date) ==
    LET last == CHOOSE i \in 1..Len(old_schedule) :
                    /\ old_schedule[i].date = date
                    /\ \A j \in (i + 1)..Len(old_schedule) :
                           old_schedule[j].date # date
    IN old_schedule[last]

\* CompareDay without the has_shutdowns test on a new date
CompareDay_NoSlotCheck(old_schedule, new_day) ==
    IF new_day.date \notin DatesOf(old_schedule)
    THEN <<[type |-> "added",
            date |-> new_day.date,
            shutdown_times |-> new_day.shutdown_times]>>
    ELSE LET old_day == OldByDate(old_schedule, new_day.date)
             old_times == Range(old_day.shutdown_times)
             new_times == Range(new_day.shutdown_times)
         IN IF new_times # old_times
            THEN <<[type |-> "modified",
                    date |-> new_day.date,
                    added_times |-> new_times \ old_times,
                    removed_times |-> old_times \ new_times]>>
            ELSE << >>

\* the body of the loop over new_schedule, for one new_day
CompareDay(old_schedule, new_day) ==
    IF new_day.date \notin DatesOf(old_schedule)
    THEN IF new_day.has_shutdowns
         THEN <<[type |-> "added",
                 date |-> new_day.date,
                 shutdown_times |-> new_day.shutdown_times]>>
         ELSE << >>
    ELSE LET old_day == OldByDate(old_schedule, new_day.date)
             old_times == Range(old_day.shutdown_times)
             new_times == Range(new_day.shutdown_times)
             added_times == new_times \ old_times
             removed_times == old_times \ new_times
         IN IF added_times # {} \/ removed_times # {}
            THEN <<[type |-> "modified",
                    date |-> new_day.date,
                    added_times |-> added_times,
                    removed_times |-> removed_times]>>
            ELSE << >>

RECURSIVE CompareFrom(_, _, _)
CompareFrom(old_schedule, new_schedule, i) ==
    IF i > Len(new_schedule) THEN << >>
    ELSE CompareDay(old_schedule, new_schedule[i])
         \o CompareFrom(old_schedule, new_schedule, i + 1)

RECURSIVE RemovedFrom(_, _, _)
\* a delta for every old day whose date new_schedule lacks
RemovedFrom(old_schedule, new_schedule, i) ==
    IF i > Len(old_schedule) THEN << >>
    ELSE (IF old_schedule[i].date \notin DatesOf(new_schedule)
          THEN <<[type |-> "removed",
                  date |-> old_schedule[i].date,
                  shutdown_times |-> old_schedule[i].shutdown_times]>>
          ELSE << >>)
         \o RemovedFrom(old_schedule, new_schedule, i + 1)

\* _compare_schedules that also reports the days that dropped out
_compare_schedules_WithRemoved(old_schedule, new_schedule) ==
    CompareFrom(old_schedule, new_schedule, 1)
    \o RemovedFrom(old_schedule, new_schedule, 1)

_compare_schedules(old_schedule, new_schedule) ==
    CompareFrom(old_schedule, new_schedule, 1)

(***************************************************************************)
(* The monitoring service: domains                                         *)
(***************************************************************************)
\* the clock stops after this many quarter hours
MaxClock == 1

Users == {"u1", "u2"}

NoAddr == "none"

\* the address a user saves with set_user_address
AddressOf(u) == CASE u = "u1" -> "addr1" [] OTHER -> "addr2"

\* the bot objects start_monitoring is handed
Bots == {"bot"}

\* check_interval arguments of start_monitoring, in seconds
Intervals == {900, 1800}

\* the operations a request runs: get_current_status, get_today_schedule,
\* get_week_schedule
RequestOps == {"check_today"}

\* the coroutines that can be alive at once (monitoring loops and requests)
TaskIds == {1, 2}

\* the parser objects that can exist at once
ParserIds == {1, 2, 3}

\* the pages the monitored site serves
MonDateTexts == {"21.11"}

MonHeaders == <<"00:30-01:00">>

MonSchedules ==
    {_parse_schedule_table(p) : p \in Pages(MonDateTexts, MonHeaders, MaxRows)}

\* datetime.now(kiev_tz).strftime("%Y-%m-%d")
Today == "2024-11-21"

\* the time slots last_notifications can be keyed by
Slots == Range(MonHeaders)

\* if 15 <= time_diff <= 30
WindowMin == 15

WindowMax == 30

\* (now - last_notif).total_seconds() > 3600
DedupSeconds == 3600

NoEvent == [type |-> "none"]

\* a harness while no call of its function is modelled
NoCall == [pc |-> "idle"]

\* a result dictionary: only the keys the service reads (success,
\* has_changes, changes, schedule of check_today)
FailRes == [ok |-> FALSE, has_changes |-> FALSE, changes |-> << >>,
            today |-> << >>]

\* (in a task, `failed` is history: check_for_changes has failed in the
\* tick the loop is in)
\* (in a task, `src` is history: the address of the parser object that the
\* result in `res` was extracted with)
\* `by` is history: the coroutine that created the object, 0 once that
\* coroutine has ended
FreeParser == [state |-> "free", cfg |-> NoAddr, cached |-> << >>, by |-> 0]

FreeTask == [kind |-> "free", user |-> "none", bot |-> "none", interval |-> 0,
             pc |-> "free", op |-> "none", held |-> 0, cancel |-> FALSE,
             exc |-> "none", res |-> FailRes, wake |-> 0,
             got |-> << >>, prev |-> << >>, src |-> NoAddr,
             failed |-> FALSE]

\* the pcs at which a coroutine is suspended in an await
AwaitPcs == {"new", "init", "login", "fill", "extract", "closing",
             "send_change", "send_upcoming", "sleep", "err_sleep"}

(***************************************************************************)
(* Parser objects                                                          *)
(***************************************************************************)
Referenced(p, sp, ts) == sp = p \/ \E t \in TaskIds : ts[t].held = p

\* objects nothing refers to any more are dropped
Collect(ps, sp, ts) ==
    [p \in ParserIds |->
        IF ~Referenced(p, sp, ts) THEN FreeParser
        ELSE IF ps[p].by # 0 /\ ts[ps[p].by].kind = "free"
        THEN [ps[p] EXCEPT !.by = 0]
        ELSE ps[p]]

FreshParser(ps) == CHOOSE p \in ParserIds :
                       /\ ps[p].state = "free"
                       /\ \A q \in ParserIds : ps[q].state = "free" => p <= q

FreshTask(ts) == CHOOSE t \in TaskIds :
                     /\ ts[t].kind = "free"
                     /\ \A q \in TaskIds : ts[q].kind = "free" => t <= q

(***************************************************************************)
(* DTEKParser operations on an extracted schedule                          *)
(***************************************************************************)
\* _get_schedule, lines 197-212: the result is stored in cached_schedule
\* before it is returned
CacheAfterGetSchedule(cached_before, schedule) == <<schedule>>

\* _track_changes, lines 408-435, given the cache as line 409 reads it
_track_changes(cached_schedule, new_schedule) ==
    IF cached_schedule = << >>
    THEN [ok |-> TRUE, has_changes |-> FALSE, changes |-> << >>,
          today |-> << >>]
    ELSE LET changes == _compare_schedules(cached_schedule[1], new_schedule)
         IN [ok |-> TRUE, has_changes |-> Len(changes) > 0,
             changes |-> changes, today |-> << >>]

\* _check_today, lines 381-392: the first day whose date is today, or None
_check_today(schedule) ==
    LET found == {i \in 1..Len(schedule) : schedule[i].date = Today}
        first == CHOOSE i \in found : \A j \in found : i <= j
    IN [ok |-> TRUE, has_changes |-> FALSE, changes |-> << >>,
        today |-> IF found = {} THEN << >> ELSE <<schedule[first]>>]

\* the other operations: only success is read
OtherResult(schedule) ==
    [ok |-> TRUE, has_changes |-> FALSE, changes |-> << >>,
     today |-> << >>]

\* DTEKParser.parse after a successful _get_schedule
ParseResult(op, cached_schedule, schedule) ==
    CASE op = "track_changes" -> _track_changes(cached_schedule, schedule)
      [] op = "check_today" -> _check_today(schedule)
      [] OTHER -> OtherResult(schedule)

(***************************************************************************)
(* _check_upcoming_shutdowns: the scan of today's slots                    *)
(***************************************************************************)
\* re.search(r'(\d{2}):(\d{2})', time_slot): hour * 60 + minute of the first
\* match, -1 without a match
SlotStart(time_slot) ==
    CASE time_slot = "00:30-01:00" -> 0 * 60 + 30
      [] time_slot = "18:00-18:30" -> 18 * 60 + 0
      [] OTHER -> -1

\* a window that leaves out the slot that starts in exactly 30 minutes
InWindow_Exclusive(time_slot, t) ==
    /\ SlotStart(time_slot) >= 0
    /\ WindowMin <= SlotStart(time_slot) - t
    /\ SlotStart(time_slot) - t < WindowMax

\* line 333
InWindow(time_slot, t) ==
    /\ SlotStart(time_slot) >= 0
    /\ WindowMin <= SlotStart(time_slot) - t
    /\ SlotStart(time_slot) - t <= WindowMax

\* a check that lets every slot in the window through
NotNotifiedLately_Always(last_notif, t) == TRUE

\* line 336: not last_notif or (now - last_notif).total_seconds() > 3600
NotNotifiedLately(last_notif, t) ==
    last_notif < 0 \/ (t - last_notif) * 60 > DedupSeconds

RECURSIVE ScanSlots(_, _, _, _)
\* lines 320-342 from slot i on: the slots to announce, and the stamps
ScanSlots(times, i, stamps, t) ==
    IF i > Len(times) THEN [upcoming |-> << >>, stamps |-> stamps]
    ELSE IF InWindow(times[i], t) /\ NotNotifiedLately(stamps[times[i]], t)
         THEN LET rest == ScanSlots(times, i + 1,
                                    [stamps EXCEPT ![times[i]] = t], t)
              IN [upcoming |-> <<times[i]>> \o rest.upcoming,
                  stamps |-> rest.stamps]
         ELSE ScanSlots(times, i + 1, stamps, t)

(***************************************************************************)
(* The service's state after __init__, and the steps of its coroutines.    *)
(* A coroutine runs alone from one await to the next: `running` names the  *)
(* task that is between two awaits, and nothing else moves until it        *)
(* suspends again.                                                         *)
(***************************************************************************)
InitMon ==
    /\ now = 0
    /\ user_addresses = [u \in Users |-> NoAddr]
    /\ parser = 0
    /\ parsers = [p \in ParserIds |-> FreeParser]
    /\ monitoring_tasks = [u \in Users |-> 0]
    /\ last_notifications = [u \in Users |-> [s \in Slots |-> -1]]
    /\ tasks = [t \in TaskIds |-> FreeTask]
    /\ running = 0
    /\ event = NoEvent
    /\ notified = [u \in Users |-> [s \in Slots |-> -1]]
    /\ stopped = {}

\* the new tasks, self.parser and parser objects of a step
Commit(ts, sp, ps) ==
    /\ tasks' = ts
    /\ parser' = sp
    /\ parsers' = Collect(ps, sp, ts)

\* asyncio.sleep(check_interval): the minute the sleep ends
WakeTime(check_interval) == now + check_interval \div 60

\* the task enters asyncio.sleep(check_interval) at line 258 or line 265
Asleep(task, pc) ==
    [task EXCEPT !.pc = pc, !.wake = WakeTime(task.interval),
                 !.res = FailRes, !.exc = "none", !.held = 0,
                 !.src = NoAddr, !.failed = FALSE]

(***************************************************************************)
(* Calls from the handlers                                                 *)
(***************************************************************************)
\* DTEKMonitorService.set_user_address
set_user_address(u) ==
    /\ running = 0
    /\ user_addresses' = [user_addresses EXCEPT ![u] = AddressOf(u)]
    /\ event' = NoEvent
    /\ UNCHANGED <<now, parser, parsers, monitoring_tasks, last_notifications,
                   tasks, running, notified, stopped, diffVars>>

\* start_monitoring that logs the warning and goes on to create the task
start_monitoring_NoReturn(u, bot, check_interval) ==
    /\ running = 0
    /\ \E t \in TaskIds : tasks[t].kind = "free"
    /\ LET t == FreshTask(tasks)
       IN /\ tasks' = [tasks EXCEPT ![t] =
                 [FreeTask EXCEPT !.kind = "loop", !.user = u, !.bot = bot,
                                  !.interval = check_interval, !.pc = "new"]]
          /\ monitoring_tasks' = [monitoring_tasks EXCEPT ![u] = t]
    /\ event' = IF monitoring_tasks[u] # 0
                THEN [type |-> "already_running", user |-> u]
                ELSE NoEvent
    /\ UNCHANGED <<now, user_addresses, parser, parsers, last_notifications,
                   running, notified, stopped, diffVars>>

\* DTEKMonitorService.start_monitoring
start_monitoring(u, bot, check_interval) ==
    /\ running = 0
    /\ IF monitoring_tasks[u] # 0
       THEN /\ event' = [type |-> "already_running", user |-> u]
            /\ UNCHANGED <<tasks, monitoring_tasks>>
       ELSE /\ \E t \in TaskIds : tasks[t].kind = "free"
            /\ LET t == FreshTask(tasks)
               IN /\ tasks' = [tasks EXCEPT ![t] =
                         [FreeTask EXCEPT !.kind = "loop", !.user = u,
                                          !.bot = bot,
                                          !.interval = check_interval,
                                          !.pc = "new"]]
                  /\ monitoring_tasks' = [monitoring_tasks EXCEPT ![u] = t]
            /\ event' = NoEvent
    /\ UNCHANGED <<now, user_addresses, parser, parsers, last_notifications,
                   running, notified, stopped, diffVars>>

\* a start_monitor_command that calls start_monitoring without looking at
\* the address
start_monitor_command_NoCheck(u, bot, check_interval) ==
    start_monitoring(u, bot, check_interval)

\* DTEKHandler.start_monitor_command, the one caller of start_monitoring:
\* without a saved address it replies that the address is not configured
\* and returns. The handler passes check_interval = 1800; other values
\* stand for other settings of that constant.
start_monitor_command(u, bot, check_interval) ==
    IF user_addresses[u] = NoAddr
    THEN /\ running = 0
         /\ event' = [type |-> "address_missing", user |-> u]
         /\ UNCHANGED <<now, user_addresses, parser, parsers,
                        monitoring_tasks, last_notifications, tasks, running,
                        notified, stopped, diffVars>>
    ELSE start_monitoring(u, bot, check_interval)

\* DTEKMonitorService.stop_monitoring: task.cancel() and del. With `history`
\* the user is remembered as one who has stopped a monitor.
stop_monitoring(u, history) ==
    /\ running = 0
    /\ IF monitoring_tasks[u] # 0
       THEN /\ tasks' = [tasks EXCEPT ![monitoring_tasks[u]].cancel = TRUE]
            /\ monitoring_tasks' = [monitoring_tasks EXCEPT ![u] = 0]
            /\ stopped' = IF history THEN stopped \cup {u} ELSE stopped
            /\ event' = [type |-> "stopped", user |-> u]
       ELSE /\ event' = NoEvent
            /\ UNCHANGED <<tasks, monitoring_tasks, stopped>>
    /\ UNCHANGED <<now, user_addresses, parser, parsers, last_notifications,
                   running, notified, diffVars>>

\* a handler calls get_today_schedule (or another operation) for a user
Request(u, op) ==
    /\ running = 0
    /\ \E t \in TaskIds : tasks[t].kind = "free"
    /\ LET t == FreshTask(tasks)
       IN /\ tasks' = [tasks EXCEPT ![t] =
                 [FreeTask EXCEPT !.kind = "req", !.user = u,
                                  !.pc = "op_begin", !.op = op]]
          /\ running' = t
    /\ event' = NoEvent
    /\ UNCHANGED <<now, user_addresses, parser, parsers, monitoring_tasks,
                   last_notifications, notified, stopped, diffVars>>

\* time passes while every coroutine is suspended
AdvanceClock ==
    /\ running = 0
    /\ now < 15 * MaxClock
    /\ now' = now + 15
    /\ event' = NoEvent
    /\ UNCHANGED <<user_addresses, parser, parsers, monitoring_tasks,
                   last_notifications, tasks, running, notified, stopped,
                   diffVars>>

(***************************************************************************)
(* One operation of the service: get_current_status, get_today_schedule,   *)
(* get_week_schedule, check_for_changes (all of one shape)                 *)
(***************************************************************************)
\* _monitoring_loop starts: while True, check_for_changes is called
TaskStart(t) ==
    /\ running = 0
    /\ tasks[t].kind = "loop" /\ tasks[t].pc = "new" /\ ~tasks[t].cancel
    /\ tasks' = [tasks EXCEPT ![t].pc = "op_begin", ![t].op = "track_changes"]
    /\ running' = t
    /\ event' = NoEvent
    /\ UNCHANGED <<now, user_addresses, parser, parsers, monitoring_tasks,
                   last_notifications, notified, stopped, diffVars>>

\* if not self.parser: address lookup, initialize_parser up to its first
\* await (ParserFactory.create_parser, parser.initialize())
OpBegin(t) ==
    /\ running = t /\ tasks[t].pc = "op_begin"
    /\ event' = NoEvent
    /\ IF parser # 0
       THEN /\ Commit([tasks EXCEPT ![t].pc = "op_parse"], parser, parsers)
            /\ UNCHANGED running
       ELSE IF user_addresses[tasks[t].user] = NoAddr
       THEN /\ Commit([tasks EXCEPT ![t].pc = "op_return", ![t].res = FailRes],
                      parser, parsers)
            /\ UNCHANGED running
       ELSE /\ LET p == FreshParser(parsers)
               IN Commit([tasks EXCEPT ![t].pc = "init", ![t].held = p],
                         parser,
                         [parsers EXCEPT ![p] =
                             [state |-> "starting",
                              cfg |-> user_addresses[tasks[t].user],
                              cached |-> << >>, by |-> t]])
            /\ running' = 0
    /\ UNCHANGED <<now, user_addresses, monitoring_tasks, last_notifications,
                   notified, stopped, diffVars>>

\* parser.initialize() returns: self.parser is assigned the parser, or None
\* when the browser did not start; then login() is awaited
InitDone(t, ok) ==
    /\ running = 0
    /\ tasks[t].pc = "init" /\ ~tasks[t].cancel
    /\ event' = NoEvent
    /\ IF ok
       THEN /\ Commit([tasks EXCEPT ![t].pc = "login"], tasks[t].held,
                      [parsers EXCEPT ![tasks[t].held].state = "open"])
            /\ UNCHANGED running
       ELSE /\ Commit([tasks EXCEPT ![t].pc = "op_return", ![t].held = 0,
                                    ![t].res = FailRes],
                      0, [parsers EXCEPT ![tasks[t].held] = FreeParser])
            /\ running' = t
    /\ UNCHANGED <<now, user_addresses, monitoring_tasks, last_notifications,
                   notified, stopped, diffVars>>

\* self.parser.login() returns; on False the operation returns its error
\* with self.parser left as it is
LoginDone(t, ok) ==
    /\ running = 0
    /\ tasks[t].pc = "login" /\ ~tasks[t].cancel
    /\ ok => parsers[tasks[t].held].state = "open"
    /\ event' = NoEvent
    /\ IF ok
       THEN Commit([tasks EXCEPT ![t].pc = "op_parse", ![t].held = 0],
                   parser, parsers)
       ELSE Commit([tasks EXCEPT ![t].pc = "op_return", ![t].held = 0,
                                 ![t].res = FailRes],
                   parser, parsers)
    /\ running' = t
    /\ UNCHANGED <<now, user_addresses, monitoring_tasks, last_notifications,
                   notified, stopped, diffVars>>

\* try: result = await self.parser.parse(operation=...), up to the first
\* await of _fill_address_form; self.parser None raises AttributeError
OpParse(t) ==
    /\ running = t /\ tasks[t].pc = "op_parse"
    /\ event' = NoEvent
    /\ IF parser = 0
       THEN /\ Commit([tasks EXCEPT ![t].pc = "op_finally",
                                    ![t].res = FailRes],
                      parser, parsers)
            /\ UNCHANGED running
       ELSE /\ Commit([tasks EXCEPT ![t].pc = "fill", ![t].held = parser],
                      parser, parsers)
            /\ running' = 0
    /\ UNCHANGED <<now, user_addresses, monitoring_tasks, last_notifications,
                   notified, stopped, diffVars>>

\* _fill_address_form returns; on a closed browser it can only fail
FillDone(t, ok) ==
    /\ running = 0
    /\ tasks[t].pc = "fill" /\ ~tasks[t].cancel
    /\ ok => parsers[tasks[t].held].state = "open"
    /\ event' = NoEvent
    /\ IF ok
       THEN /\ Commit([tasks EXCEPT ![t].pc = "extract"], parser, parsers)
            /\ UNCHANGED running
       ELSE /\ Commit([tasks EXCEPT ![t].pc = "op_finally", ![t].held = 0,
                                    ![t].res = FailRes],
                      parser, parsers)
            /\ running' = t
    /\ UNCHANGED <<now, user_addresses, monitoring_tasks, last_notifications,
                   notified, stopped, diffVars>>

\* the tasks and parsers once _parse_schedule_table and _get_warnings have
\* returned `schedule` to task t: _get_schedule caches its result, parse
\* computes the operation's result. With `history` the schedule the task
\* has read is remembered in `got`.
Extracted(t, schedule, history) ==
    LET p == tasks[t].held
        cached1 == CacheAfterGetSchedule(parsers[p].cached, schedule)
        res == ParseResult(tasks[t].op, cached1, schedule)
        cached2 == IF tasks[t].op = "track_changes" /\ cached1 # << >>
                   THEN <<schedule>> ELSE cached1
    IN Commit([tasks EXCEPT ![t].pc = "op_finally", ![t].held = 0,
                            ![t].res = res, ![t].cancel = FALSE,
                            ![t].got = IF history THEN <<schedule>>
                                       ELSE << >>,
                            ![t].src = IF res.ok THEN parsers[p].cfg
                                       ELSE NoAddr],
              parser, [parsers EXCEPT ![p].cached = cached2])

\* what the table can be read as: any page while the browser is open, the
\* empty list once reading raises
Readable(t) ==
    IF parsers[tasks[t].held].state = "open" THEN MonSchedules ELSE {<< >>}

\* _parse_schedule_table and _get_warnings return
ExtractDone(t, schedule, history) ==
    /\ running = 0
    /\ tasks[t].pc = "extract" /\ ~tasks[t].cancel
    /\ schedule \in Readable(t)
    /\ event' = NoEvent
    /\ Extracted(t, schedule, history)
    /\ running' = t
    /\ UNCHANGED <<now, user_addresses, monitoring_tasks, last_notifications,
                   notified, stopped, diffVars>>

\* the task leaves its coroutine: the loop breaks, or a request is answered
Ended(t) == [tasks EXCEPT ![t] = FreeTask]

\* finally: if self.parser: await self.parser.close()
OpFinally(t) ==
    /\ running = t /\ tasks[t].pc = "op_finally"
    /\ event' = NoEvent
    /\ IF parser # 0
       THEN /\ Commit([tasks EXCEPT ![t].pc = "closing", ![t].held = parser],
                      parser, parsers)
            /\ running' = 0
       ELSE IF tasks[t].exc = "cancelled"
       THEN /\ Commit(Ended(t), parser, parsers)
            /\ running' = 0
       ELSE /\ Commit([tasks EXCEPT ![t].pc = "op_return"], parser, parsers)
            /\ UNCHANGED running
    /\ UNCHANGED <<now, user_addresses, monitoring_tasks, last_notifications,
                   notified, stopped, diffVars>>

\* an exception raised by close() that ends the coroutine it reaches
AfterCloseError_Fatal(t) == Ended(t)

\* where an exception raised by close() in the finally clause lands: the
\* loop's except Exception (line 263) for check_for_changes, the except of
\* _check_upcoming_shutdowns (line 355) and then line 258 for
\* get_today_schedule, the handler for a request
AfterCloseError(t) ==
    IF tasks[t].kind = "req" THEN Ended(t)
    ELSE IF tasks[t].op = "track_changes"
    THEN [tasks EXCEPT ![t] = Asleep(tasks[t], "err_sleep")]
    ELSE [tasks EXCEPT ![t] = Asleep(tasks[t], "sleep")]

\* self.parser.close() returns and self.parser = None, or close() raises
CloseDone(t, ok) ==
    /\ running = 0
    /\ tasks[t].pc = "closing" /\ ~tasks[t].cancel
    /\ ~ok => parsers[tasks[t].held].state = "open"
    /\ event' = NoEvent
    /\ IF ~ok
       THEN /\ Commit(AfterCloseError(t), parser, parsers)
            /\ UNCHANGED running
       ELSE IF tasks[t].exc = "cancelled"
       THEN /\ Commit(Ended(t), 0,
                      [parsers EXCEPT ![tasks[t].held].state = "closed"])
            /\ UNCHANGED running
       ELSE /\ Commit([tasks EXCEPT ![t].pc = "op_return", ![t].held = 0],
                      0, [parsers EXCEPT ![tasks[t].held].state = "closed"])
            /\ running' = t
    /\ UNCHANGED <<now, user_addresses, monitoring_tasks, last_notifications,
                   notified, stopped, diffVars>>

\* the handler gets the result of its request
RequestReturn(t) ==
    /\ running = t /\ tasks[t].pc = "op_return" /\ tasks[t].kind = "req"
    /\ event' = [type |-> "reply", user |-> tasks[t].user,
                 ok |-> tasks[t].res.ok, src |-> tasks[t].src]
    /\ Commit(Ended(t), parser, parsers)
    /\ running' = 0
    /\ UNCHANGED <<now, user_addresses, monitoring_tasks, last_notifications,
                   notified, stopped, diffVars>>

(***************************************************************************)
(* _monitoring_loop around the operations                                  *)
(***************************************************************************)
\* lines 250-255: check_for_changes has returned; on success with
\* has_changes the change notification is sent, then
\* _check_upcoming_shutdowns calls get_today_schedule. With `history` a
\* failed check_for_changes is remembered until the loop sleeps.
AfterChanges(t, history) ==
    /\ running = t /\ tasks[t].pc = "op_return"
    /\ tasks[t].kind = "loop" /\ tasks[t].op = "track_changes"
    /\ LET r == tasks[t].res
           me == [tasks[t] EXCEPT
                     !.res = FailRes, !.got = << >>, !.src = NoAddr,
                     !.failed = history /\ ~r.ok,
                     !.prev = IF r.ok /\ tasks[t].got # << >>
                              THEN tasks[t].got ELSE @]
       IN IF r.ok /\ r.has_changes
          THEN /\ event' = [type |-> "change", user |-> me.user,
                            bot |-> me.bot, changes |-> r.changes]
               /\ tasks' = [tasks EXCEPT ![t] = [me EXCEPT !.pc = "send_change"]]
               /\ running' = 0
          ELSE /\ event' = NoEvent
               /\ tasks' = [tasks EXCEPT ![t] =
                               [me EXCEPT !.pc = "op_begin",
                                          !.op = "check_today"]]
               /\ UNCHANGED running
    /\ UNCHANGED <<now, user_addresses, parser, parsers, monitoring_tasks,
                   last_notifications, notified, stopped, diffVars>>

\* bot.send_message of _send_change_notification returns or raises (the
\* error is logged); _check_upcoming_shutdowns is next
SendChangeDone(t) ==
    /\ running = 0
    /\ tasks[t].pc = "send_change" /\ ~tasks[t].cancel
    /\ tasks' = [tasks EXCEPT ![t].pc = "op_begin", ![t].op = "check_today"]
    /\ running' = t
    /\ event' = NoEvent
    /\ UNCHANGED <<now, user_addresses, parser, parsers, monitoring_tasks,
                   last_notifications, notified, stopped, diffVars>>

\* _check_upcoming_shutdowns, lines 307-353, once get_today_schedule has
\* returned: the slots of today are scanned, the ones to announce are
\* stamped and sent in one message; then the loop sleeps (line 258)
Scan(t) ==
    /\ running = t /\ tasks[t].pc = "op_return"
    /\ tasks[t].kind = "loop" /\ tasks[t].op = "check_today"
    /\ LET r == tasks[t].res
           u == tasks[t].user
           quiet == \/ ~r.ok
                    \/ r.today = << >>
                    \/ ~r.today[1].has_shutdowns
           sc == IF quiet
                 THEN [upcoming |-> << >>, stamps |-> last_notifications[u]]
                 ELSE ScanSlots(r.today[1].shutdown_times, 1,
                                last_notifications[u], now)
       IN /\ last_notifications' =
                 [last_notifications EXCEPT ![u] = sc.stamps]
          /\ IF sc.upcoming # << >>
             THEN /\ event' = [type |-> "upcoming", user |-> u,
                               bot |-> tasks[t].bot,
                               slots |-> sc.upcoming]
                  /\ notified' = [notified EXCEPT ![u] =
                         [s \in Slots |-> IF s \in Range(sc.upcoming)
                                          THEN now ELSE notified[u][s]]]
                  /\ tasks' = [tasks EXCEPT ![t].pc = "send_upcoming",
                                            ![t].res = FailRes,
                                            ![t].src = NoAddr]
             ELSE /\ event' = NoEvent
                  /\ UNCHANGED notified
                  /\ tasks' = [tasks EXCEPT ![t] = Asleep(tasks[t], "sleep")]
    /\ running' = 0
    /\ UNCHANGED <<now, user_addresses, parser, parsers, monitoring_tasks,
                   stopped, diffVars>>

\* bot.send_message of _check_upcoming_shutdowns returns or raises (logged);
\* the loop sleeps
SendUpcomingDone(t) ==
    /\ running = 0
    /\ tasks[t].pc = "send_upcoming" /\ ~tasks[t].cancel
    /\ tasks' = [tasks EXCEPT ![t] = Asleep(tasks[t], "sleep")]
    /\ event' = NoEvent
    /\ UNCHANGED <<now, user_addresses, parser, parsers, monitoring_tasks,
                   last_notifications, running, notified, stopped, diffVars>>

\* asyncio.sleep(check_interval) is over: the next turn of while True
SleepDone(t) ==
    /\ running = 0
    /\ tasks[t].pc \in {"sleep", "err_sleep"} /\ ~tasks[t].cancel
    /\ now >= tasks[t].wake
    /\ tasks' = [tasks EXCEPT ![t].pc = "op_begin", ![t].op = "track_changes",
                              ![t].wake = 0]
    /\ running' = t
    /\ event' = NoEvent
    /\ UNCHANGED <<now, user_addresses, parser, parsers, monitoring_tasks,
                   last_notifications, notified, stopped, diffVars>>

(***************************************************************************)
(* Cancellation: task.cancel() raises CancelledError at the await the task *)
(* is suspended in. It is no Exception, so `except Exception` lets it      *)
(* pass; the finally clause of the operation runs; the bare `except:` of   *)
(* _get_warnings catches it.                                               *)
(***************************************************************************)
\* a cancellation that a sleeping loop takes as the end of its sleep
Cancelled_SleepResumes(t) ==
    IF tasks[t].pc \in {"fill", "extract"}
    THEN [tasks EXCEPT ![t].pc = "op_finally", ![t].held = 0,
                       ![t].res = FailRes, ![t].exc = "cancelled",
                       ![t].cancel = FALSE]
    ELSE IF tasks[t].pc \in {"sleep", "err_sleep"}
    THEN [tasks EXCEPT ![t].pc = "send_change", ![t].cancel = FALSE]
    ELSE Ended(t)

\* the tasks after CancelledError is raised in task t
Cancelled(t) ==
    IF tasks[t].pc \in {"fill", "extract"}
    THEN [tasks EXCEPT ![t].pc = "op_finally", ![t].held = 0,
                       ![t].res = FailRes, ![t].exc = "cancelled",
                       ![t].cancel = FALSE]
    ELSE Ended(t)

\* CancelledError reaches `except asyncio.CancelledError: break`, at once or
\* after the finally clause of the operation
CancelDelivered(t) ==
    /\ running = 0
    /\ tasks[t].cancel /\ tasks[t].pc \in AwaitPcs
    /\ Commit(Cancelled(t), parser, parsers)
    /\ running' = IF tasks[t].pc \in {"fill", "extract"} THEN t ELSE 0
    /\ event' = NoEvent
    /\ UNCHANGED <<now, user_addresses, monitoring_tasks, last_notifications,
                   notified, stopped, diffVars>>

\* CancelledError is raised inside _get_warnings and caught by its bare
\* except: the extraction completes as if nothing had happened
CancelSwallowed(t, schedule, history) ==
    /\ running = 0
    /\ tasks[t].cancel /\ tasks[t].pc = "extract"
    /\ schedule \in Readable(t)
    /\ event' = NoEvent
    /\ Extracted(t, schedule, history)
    /\ running' = t
    /\ UNCHANGED <<now, user_addresses, monitoring_tasks, last_notifications,
                   notified, stopped, diffVars>>

(***************************************************************************)
(* The monitoring service                                                  *)
(***************************************************************************)
Init ==
    /\ InitMon
    /\ d_old = << >> /\ d_new = << >> /\ d_changes = << >> /\ d_pc = "idle"
    /\ call = NoCall /\ wp = NoCall /\ sn = NoCall

\* the coroutines alive
Live == {t \in TaskIds : tasks[t].kind # "free"}

\* the monitoring loops alive
Loops == {t \in TaskIds : tasks[t].kind = "loop"}

\* the calls of the handlers that return at once, for the users `users`,
\* with at most `n` coroutines alive, at most `loops` of them monitoring
\* loops, and the check_interval arguments `intervals`
Handlers(users, n, loops, intervals, history) ==
    \/ \E u \in users : set_user_address(u)
    \/ \E u \in users, bot \in Bots, check_interval \in intervals :
           /\ monitoring_tasks[u] = 0 => /\ Cardinality(Live) < n
                                          /\ Cardinality(Loops) < loops
           /\ start_monitor_command(u, bot, check_interval)
    \/ \E u \in users : stop_monitoring(u, history)

\* the handlers' requests `ops` for the users `users`, with at most `n`
\* coroutines alive
Requests(users, n, ops) ==
    \/ \E u \in users, op \in ops :
           /\ Cardinality(Live) < n
           /\ Request(u, op)
    \/ \E t \in TaskIds : RequestReturn(t)

\* the steps of the coroutines and of the clock, with the schedules
\* `schedules` on the site, and the schedules read remembered or not
Coroutines(schedules, history) ==
    \/ AdvanceClock
    \/ \E t \in TaskIds : TaskStart(t)
    \/ \E t \in TaskIds : OpBegin(t)
    \/ \E t \in TaskIds, ok \in BOOLEAN : InitDone(t, ok)
    \/ \E t \in TaskIds, ok \in BOOLEAN : LoginDone(t, ok)
    \/ \E t \in TaskIds : OpParse(t)
    \/ \E t \in TaskIds, ok \in BOOLEAN : FillDone(t, ok)
    \/ \E t \in TaskIds, schedule \in schedules :
           ExtractDone(t, schedule, history)
    \/ \E t \in TaskIds : OpFinally(t)
    \/ \E t \in TaskIds, ok \in BOOLEAN : CloseDone(t, ok)
    \/ \E t \in TaskIds : AfterChanges(t, history)
    \/ \E t \in TaskIds : SendChangeDone(t)
    \/ \E t \in TaskIds : Scan(t)
    \/ \E t \in TaskIds : SendUpcomingDone(t)
    \/ \E t \in TaskIds : SleepDone(t)
    \/ \E t \in TaskIds : CancelDelivered(t)
    \/ \E t \in TaskIds, schedule \in schedules :
           CancelSwallowed(t, schedule, history)

\* one user, one coroutine at a time: a monitoring loop or a request, with
\* the schedules each loop has read remembered
Next ==
    \/ Handlers({"u1"}, 1, 1, Intervals, TRUE)
    \/ Requests({"u1"}, 1, RequestOps)
    \/ Coroutines(MonSchedules, TRUE)

Spec == Init /\ [][Next]_vars

(***************************************************************************)
(* Diff harness: _compare_schedules applied to two extracted schedules     *)
(***************************************************************************)
InitDiff ==
    /\ InitMon
    /\ d_old \in Schedules
    /\ d_new \in Schedules
    /\ d_changes = << >>
    /\ d_pc = "start"
    /\ call = NoCall /\ wp = NoCall /\ sn = NoCall

Compare ==
    /\ d_pc = "start"
    /\ d_changes' = _compare_schedules(d_old, d_new)
    /\ d_pc' = "done"
    /\ UNCHANGED <<d_old, d_new, call, wp, sn, monVars>>

NextDiff == Compare

SpecDiff == InitDiff /\ [][NextDiff]_vars

\* the schedules whose first row has a shutdown
ShutdownSchedules ==
    {s \in MonSchedules : Len(s) > 0 /\ s[1].has_shutdowns}

\* those of a page with a second row of the same date and no shutdown in it
RepeatedDaySchedules ==
    {s \in ShutdownSchedules : Len(s) = 2 /\ ~s[2].has_shutdowns}

(***************************************************************************)
(* Two users: the monitoring loop of a user with an address, and the       *)
(* requests of a user who has saved none                                   *)
(***************************************************************************)
NextRace ==
    \/ Handlers({"u1"}, 2, 1, {900}, FALSE)
    \/ Requests({"u2"}, 2, RequestOps)
    \/ Coroutines(RepeatedDaySchedules, FALSE)

SpecRace == Init /\ [][NextRace]_vars

(***************************************************************************)
(* Parser harness: ParserFactory.create_parser, then login() and parse()   *)
(* of the parser it returned                                               *)
(***************************************************************************)
\* ParserRegistry._parsers after the module is loaded
Registered == {"work_site", "dtek"}

\* the names create_parser is called with
ParserNames == Registered \cup {"example"}

\* SUPPORTED_OPERATIONS of a parser class
SUPPORTED_OPERATIONS(name) ==
    CASE name = "dtek" ->
             {"get_schedule", "check_now", "check_today", "track_changes"}
      [] name = "work_site" ->
             {"get_stats", "get_worker_details", "get_daily_report"}
      [] OTHER -> {}

\* the operation arguments of parse
Operations ==
    {"get_schedule", "track_changes", "get_stats", "get_daily_report",
     "export", ""}

\* the keys a config_data dictionary can hold with a non-empty value
ConfigKeys == {"url", "username", "password", "street", "building"}

\* the settings of config.py (WORK_SITE_URL, WORK_SITE_USERNAME,
\* WORK_SITE_PASSWORD) that are set: none or all of them
GlobalConfigs == {{}, {"url", "username", "password"}}

\* what goes wrong outside the code: the constructor raises, the browser
\* does not start, the page does not load, the site shows /login again
Faults == {"none", "ctor", "init", "goto", "rejected"}

None == [kind |-> "None"]

\* ParserFactory.create_parser(name, config_data, auto_init=True)
create_parser(name, config_data, fault) ==
    IF name \notin Registered THEN None
    ELSE IF fault = "ctor" THEN None
    ELSE IF fault = "init" THEN None
    ELSE [kind |-> "parser", name |-> name, config_data |-> config_data]

\* the attributes the constructors derive from config_data: WorkSiteParser
\* falls back to config.py when config_data is empty, DTEKParser defaults
\* street and building to ""
Fields(name, config_data, global) ==
    IF name = "work_site"
    THEN (IF config_data # {} THEN config_data ELSE global)
             \cap {"url", "username", "password"}
    ELSE config_data \cap {"street", "building"}

\* the fields a parser cannot work without
Required(name) ==
    IF name = "work_site" THEN {"url", "username", "password"}
    ELSE {"street", "building"}

\* validate_config of the two parsers
validate_config(name, config_data, global) ==
    Required(name) \subseteq Fields(name, config_data, global)

\* WorkSiteParser.login, DTEKParser.login
login(name, config_data, global, fault) ==
    IF name = "work_site"
    THEN IF ~validate_config(name, config_data, global) THEN FALSE
         ELSE fault \notin {"goto", "rejected"}
    ELSE fault # "goto"

\* the operations named in the if / elif chain of parse
Dispatched(name) ==
    CASE name = "dtek" ->
             {"get_schedule", "check_now", "check_today", "track_changes"}
      [] name = "work_site" ->
             {"get_stats", "get_worker_details", "get_daily_report"}
      [] OTHER -> {}

\* a parse that runs its default operation when it does not know the name
parse_Default(name, operation, fault) ==
    [ok |-> fault = "none", error |-> <<"none">>, pages |-> 1]

\* parse of the two parsers: the dispatch on `operation`; a handler works
\* on the page, the else branch only builds the error
parse(name, operation, fault) ==
    IF operation \in Dispatched(name)
    THEN [ok |-> fault = "none", error |-> <<"none">>, pages |-> 1]
    ELSE [ok |-> FALSE, error |-> <<"Unknown operation: ", operation>>,
          pages |-> 0]

InitCall ==
    /\ InitMon
    /\ d_old = << >> /\ d_new = << >> /\ d_changes = << >> /\ d_pc = "idle"
    /\ wp = NoCall /\ sn = NoCall
    /\ \E name \in ParserNames, config_data \in SUBSET ConfigKeys,
          global \in GlobalConfigs, fault \in Faults,
          operation \in Operations :
           call = [pc |-> "start", name |-> name, config_data |-> config_data,
                 global |-> global, fault |-> fault, operation |-> operation,
                 created |-> None, logged_in |-> FALSE,
                 result |-> [ok |-> FALSE, error |-> <<"none">>, pages |-> 0]]

\* parser = await ParserFactory.create_parser(name, config_data)
Create ==
    /\ call.pc = "start"
    /\ LET made == create_parser(call.name, call.config_data, call.fault)
       IN call' = [call EXCEPT !.created = made,
                           !.pc = IF made = None THEN "failed" ELSE "created"]
    /\ UNCHANGED <<d_old, d_new, d_changes, d_pc, wp, sn, monVars>>

\* await parser.login()
Login ==
    /\ call.pc = "created"
    /\ call' = [call EXCEPT !.logged_in = login(call.name, call.config_data,
                                            call.global, call.fault),
                        !.pc = "logged"]
    /\ UNCHANGED <<d_old, d_new, d_changes, d_pc, wp, sn, monVars>>

\* await parser.parse(operation=...)
Parse ==
    /\ call.pc = "logged"
    /\ call' = [call EXCEPT !.result = parse(call.name, call.operation, call.fault),
                        !.pc = "parsed"]
    /\ UNCHANGED <<d_old, d_new, d_changes, d_pc, wp, sn, monVars>>

NextCall == Create \/ Login \/ Parse

SpecCall == InitCall /\ [][NextCall]_vars

(***************************************************************************)
(* Report harness: WorkParserService.parse_reports over the rows of the    *)
(* reports table                                                           *)
(***************************************************************************)
\* most rows of the reports table
MaxReportRows == 2

\* texts of a numeric badge of a row (SFS): a number, text without digits,
\* text with digits in it, or no badge at all
BadgeTexts == {"5", "n/a", "x12", "absent"}

\* the characters of a badge text
Chars(text) ==
    CASE text = "5" -> <<"5">>
      [] text = "n/a" -> <<"n", "/", "a">>
      [] text = "x12" -> <<"x", "1", "2">>
      [] OTHER -> << >>

\* \d
DigitValue ==
    [c \in {"0", "1", "2", "5"} |->
        CASE c = "0" -> 0 [] c = "1" -> 1 [] c = "2" -> 2 [] OTHER -> 5]

RECURSIVE DigitRun(_, _, _)
\* int() of the run of digits of cs that starts at position i, after the
\* digits of value acc
DigitRun(cs, i, acc) ==
    IF i > Len(cs) \/ cs[i] \notin DOMAIN DigitValue THEN acc
    ELSE DigitRun(cs, i + 1, acc * 10 + DigitValue[cs[i]])

\* parser_service.WorkSiteParser._extract_number: the first match of \d+ as
\* a number, 0 when there is none
_extract_number(text) ==
    LET cs == Chars(text)
        starts == {i \in 1..Len(cs) : cs[i] \in DOMAIN DigitValue}
    IN IF starts = {} THEN 0
       ELSE DigitRun(cs, CHOOSE i \in starts : \A j \in starts : i <= j, 0)

\* the icon of the scam column
Icons == {"red", "yellow", "none"}

\* how the detail step of a row ends: the modal is read, wait_for_selector
\* times out with no modal shown, the modal has no body, the screenshot
\* fails, reading the body of the modal raises
DetailOutcomes == {"ok", "timeout", "no_body", "shot_error", "read_error"}

\* _parse_worker_row reaches _parse_scam_details for this row: the red icon
\* and the details button are there
DetailRuns(row) == row.icon = "red" /\ row.button

\* the rows of the table; the detail outcome matters only where the detail
\* step runs
ReportRows ==
    {row \in [sfs_text : BadgeTexts, icon : Icons, button : BOOLEAN,
              detail : DetailOutcomes] :
        DetailRuns(row) \/ row.detail = "ok"}

ReportTables == SeqsUpTo(ReportRows, MaxReportRows)

\* int(text) returns a number
IsInt(text) == text \in {"5"}

\* int(text) of a numeric text (one numeric text in the model)
IntOf(text) == 5

\* _parse_scam_details: every exception ends in {"error": ...}; a failed
\* screenshot gives details with screenshot None
_parse_scam_details(row) ==
    CASE row.detail = "ok" -> [kind |-> "details", screenshot |-> TRUE]
      [] row.detail = "shot_error" ->
             [kind |-> "details", screenshot |-> FALSE]
      [] OTHER -> [kind |-> "error", screenshot |-> FALSE]

\* a row parser that gives the row up when its detail step fails
_parse_worker_row_DetailFatal(row, idx) ==
    IF row.sfs_text # "absent" /\ ~IsInt(row.sfs_text) THEN << >>
    ELSE IF DetailRuns(row) /\ row.detail # "ok" THEN << >>
    ELSE <<[row |-> idx,
            sfs |-> IF row.sfs_text = "absent" THEN 0
                    ELSE IntOf(row.sfs_text),
            has_scam |-> row.icon = "red",
            scam_status |-> CASE row.icon = "red" -> "scam_detected"
                              [] row.icon = "yellow" -> "suspicious"
                              [] OTHER -> "clean",
            scam_details |-> IF DetailRuns(row)
                             THEN <<_parse_scam_details(row)>>
                             ELSE << >>]>>

\* _parse_worker_row of the row at position idx: << >> for None (int()
\* raised on a badge text), else the worker_data
_parse_worker_row(row, idx) ==
    IF row.sfs_text # "absent" /\ ~IsInt(row.sfs_text) THEN << >>
    ELSE <<[row |-> idx,
            sfs |-> IF row.sfs_text = "absent" THEN 0
                    ELSE IntOf(row.sfs_text),
            has_scam |-> row.icon = "red",
            scam_status |-> CASE row.icon = "red" -> "scam_detected"
                              [] row.icon = "yellow" -> "suspicious"
                              [] OTHER -> "clean",
            scam_details |-> IF DetailRuns(row)
                             THEN <<_parse_scam_details(row)>>
                             ELSE << >>]>>

\* the modal after _parse_scam_details of the row: the click opens it
\* unless wait_for_selector times out; close_btn.click() is reached only
\* when nothing before it has raised (the screenshot catches its own
\* errors)
ModalAfter(row) ==
    LET shown == row.detail # "timeout"
        reaches_close == row.detail \in {"ok", "no_body", "shot_error"}
    IN IF DetailRuns(row) /\ shown /\ ~reaches_close
       THEN "open" ELSE "closed"

RECURSIVE WorkersFrom(_, _)
\* the loop of parse_reports from row idx on: workers.append(worker_data)
\* when worker_data is not None
WorkersFrom(rows, idx) ==
    IF idx > Len(rows) THEN << >>
    ELSE _parse_worker_row(rows[idx], idx) \o WorkersFrom(rows, idx + 1)

\* the "workers" list of the result of parse_reports
parse_reports(rows) == WorkersFrom(rows, 1)

InitReports ==
    /\ InitMon
    /\ d_old = << >> /\ d_new = << >> /\ d_changes = << >> /\ d_pc = "idle"
    /\ call = NoCall /\ sn = NoCall
    /\ \E rows \in ReportTables :
           wp = [pc |-> "start", rows |-> rows, workers |-> << >>,
                 modal |-> << >>]

ParseReports ==
    /\ wp.pc = "start"
    /\ wp' = [wp EXCEPT !.workers = parse_reports(wp.rows),
                        !.modal = [i \in 1..Len(wp.rows) |->
                                      ModalAfter(wp.rows[i])],
                        !.pc = "done"]
    /\ UNCHANGED <<d_old, d_new, d_changes, d_pc, call, sn, monVars>>

NextReports == ParseReports

SpecReports == InitReports /\ [][NextReports]_vars

(***************************************************************************)
(* Scan harness: the loop of _check_upcoming_shutdowns over the slots of   *)
(* today, for one user                                                     *)
(***************************************************************************)
\* most slots in shutdown_times of today
MaxScanSlots == 2

\* slot labels: two with a start time, one in which the regex finds none
ScanLabels == {"00:30-01:00", "18:00-18:30", "no time"}

\* minutes of the day at which the scan runs: around the ends of the
\* window of each label
ScanTimes == {0, 1, 15, 16, 1049, 1050, 1065, 1066}

\* last_notifications of the user before a scan at minute t: no entry
\* (-1), or an entry 61, 60 or 1 minutes old
StampsBefore(t) ==
    [ScanLabels -> {-1} \cup {x \in {t - 61, t - 60, t - 1} : x >= 0}]

InitScan ==
    /\ InitMon
    /\ d_old = << >> /\ d_new = << >> /\ d_changes = << >> /\ d_pc = "idle"
    /\ call = NoCall /\ wp = NoCall
    /\ \E times \in SeqsUpTo(ScanLabels, MaxScanSlots), t \in ScanTimes :
           \E before \in StampsBefore(t) :
               sn = [pc |-> "start", times |-> times, t |-> t,
                     before |-> before, upcoming |-> << >>,
                     after |-> before]

\* for time_slot in schedule.get("shutdown_times", [])
ScanToday ==
    /\ sn.pc = "start"
    /\ LET scan == ScanSlots(sn.times, 1, sn.before, sn.t)
       IN sn' = [sn EXCEPT !.upcoming = scan.upcoming,
                           !.after = scan.stamps,
                           !.pc = "done"]
    /\ UNCHANGED <<d_old, d_new, d_changes, d_pc, call, wp, monVars>>

NextScan == ScanToday

SpecScan == InitScan /\ [][NextScan]_vars

(***************************************************************************)
(* Two monitoring loops side by side: a loop that outlived its stop, and   *)
(* the loop started after it                                               *)
(***************************************************************************)
NextLoops ==
    \/ Handlers({"u1"}, 2, 2, {900}, FALSE)
    \/ Coroutines(RepeatedDaySchedules, FALSE)

SpecLoops == Init /\ [][NextLoops]_vars

(***************************************************************************)
(* Claims about _compare_schedules (checked under SpecDiff)                *)
(***************************************************************************)
\* the indices of the deltas of a list that carry a date
DeltasFor(changes, date) == {i \in 1..Len(changes) : changes[i].date = date}

\* the indices of the entries of a schedule that carry a date
EntriesFor(schedule, date) ==
    {i \in 1..Len(schedule) : schedule[i].date = date}

\* the slot set a schedule holds for a date
SlotsOn(schedule, date) ==
    UNION {Range(schedule[i].shutdown_times) : i \in EntriesFor(schedule, date)}

\* C2: for every schedule old the extractor can produce, diff(old, old) is
\* the empty list.
C2_DiffOfSameIsEmpty ==
    (d_pc = "done" /\ d_old = d_new) => d_changes = << >>

\* new is old with the one slot s added to its entry k, nothing else changed
AddsOneSlot(old, new, k, s) ==
    /\ Len(new) = Len(old)
    /\ k \in 1..Len(old)
    /\ s \notin Range(old[k].shutdown_times)
    /\ Range(new[k].shutdown_times) = Range(old[k].shutdown_times) \cup {s}
    /\ new[k].date = old[k].date
    /\ \A i \in 1..Len(old) : i # k => new[i] = old[i]

\* C3: for a date present in both old and new, diff emits a day_modified
\* delta for that date exactly when the slot sets differ, with added_slots =
\* new.slots \ old.slots and removed_slots = old.slots \ new.slots; adding
\* one slot to an existing date yields exactly one day_modified delta whose
\* added_slots is that slot and whose removed_slots is empty.
C3_ModifiedDelta ==
    d_pc = "done" =>
        /\ \A d \in DatesOf(d_old) \cap DatesOf(d_new) :
              LET O == SlotsOn(d_old, d)
                  N == SlotsOn(d_new, d)
                  M == {i \in DeltasFor(d_changes, d) :
                            d_changes[i].type = "modified"}
              IN /\ (M # {}) <=> (O # N)
                 /\ \A i \in M : /\ d_changes[i].added_times = N \ O
                                 /\ d_changes[i].removed_times = O \ N
        /\ \A k \in 1..Len(d_old) : \A s \in Range(TimeHeaders) :
              AddsOneSlot(d_old, d_new, k, s) =>
                  d_changes = <<[type |-> "modified",
                                 date |-> d_old[k].date,
                                 added_times |-> {s},
                                 removed_times |-> {}]>>

\* C4: for a date present in new and absent from old, diff emits a
\* day_added delta for that date if and only if the day has at least one
\* slot, and the delta's added slots are that day's full slot set (one delta
\* per day entry of new that has slots, none for an entry without).
C4_AddedDelta ==
    d_pc = "done" =>
        \A d \in DatesOf(d_new) \ DatesOf(d_old) :
            LET D == DeltasFor(d_changes, d)
                E == {j \in EntriesFor(d_new, d) :
                          Range(d_new[j].shutdown_times) # {}}
            IN /\ \A i \in D : d_changes[i].type = "added"
               /\ Cardinality(D) = Cardinality(E)
               /\ {Range(d_changes[i].shutdown_times) : i \in D}
                      = {Range(d_new[j].shutdown_times) : j \in E}

\* C4 witness: a date only in new with slots got its day_added delta, and a
\* date only in new without slots got none
C4_Witness ==
    /\ d_pc = "done"
    /\ \E d \in DatesOf(d_new) \ DatesOf(d_old) :
           /\ SlotsOn(d_new, d) # {}
           /\ DeltasFor(d_changes, d) # {}
    /\ \E d \in DatesOf(d_new) \ DatesOf(d_old) :
           /\ SlotsOn(d_new, d) = {}
           /\ DeltasFor(d_changes, d) = {}

\* C5: every delta returned by diff(old, new) carries a date present in new;
\* a date present only in old never appears in the delta list.
C5_DeltaDatesInNew ==
    d_pc = "done" =>
        \A i \in 1..Len(d_changes) : d_changes[i].date \in DatesOf(d_new)

\* C5 witness: old holds a date with slots that new lacks, and the diff of
\* the two is not empty
C5_Witness ==
    /\ d_pc = "done"
    /\ \E d \in DatesOf(d_old) \ DatesOf(d_new) : SlotsOn(d_old, d) # {}
    /\ d_changes # << >>

(***************************************************************************)
(* Properties of the monitoring loop                                       *)
(***************************************************************************)
\* task t is a monitoring loop to which check_for_changes has just returned
TickReturned(t) ==
    /\ running = t
    /\ tasks[t].kind = "loop"
    /\ tasks[t].pc = "op_return"
    /\ tasks[t].op = "track_changes"

\* the pcs of asyncio.sleep(check_interval)
SleepPcs == {"sleep", "err_sleep"}

\* C1: on every successful tick of a loop after its first, the schedule just
\* extracted is diffed against the schedule of the previous successful tick,
\* and when that diff is not empty the change notification carrying its
\* deltas is sent to the user.
C1_DiffAgainstPrevious ==
    [][\A t \in TaskIds :
          (/\ TickReturned(t)
           /\ tasks[t].res.ok
           /\ tasks[t].prev # << >>
           /\ tasks[t].got # << >>
           /\ _compare_schedules(tasks[t].prev[1], tasks[t].got[1]) # << >>)
          => event' = [type |-> "change", user |-> tasks[t].user,
                       bot |-> tasks[t].bot,
                       changes |-> _compare_schedules(tasks[t].prev[1],
                                                      tasks[t].got[1])]]_vars

\* C6: once an upcoming notice with a slot has been sent to a user, no
\* second upcoming notice with that slot is sent to that user within one
\* hour (DedupSeconds), whatever the ticks and calls in between.
C6_UpcomingOncePerHour ==
    [][\A u \in Users, s \in Slots :
          (/\ event'.type = "upcoming"
           /\ event'.user = u
           /\ s \in Range(event'.slots))
          => \/ notified[u][s] < 0
             \/ (now - notified[u][s]) * 60 >= DedupSeconds]_vars

\* C6 witness: a loop is about to scan today's slots, one of them lies in
\* the window and the user was sent a notice for it at an earlier minute,
\* while a second loop of the same user is alive
C6_Witness ==
    \E t \in TaskIds, s \in Slots :
        /\ running = t
        /\ \E t2 \in TaskIds \ {t} : /\ tasks[t2].kind = "loop"
                                      /\ tasks[t2].user = tasks[t].user
        /\ tasks[t].kind = "loop"
        /\ tasks[t].pc = "op_return"
        /\ tasks[t].op = "check_today"
        /\ tasks[t].res.ok
        /\ tasks[t].res.today # << >>
        /\ s \in Range(tasks[t].res.today[1].shutdown_times)
        /\ InWindow(s, now)
        /\ notified[tasks[t].user][s] >= 0
        /\ notified[tasks[t].user][s] < now

\* C7: start_monitoring for a user whose monitor is running (the user is in
\* monitoring_tasks) spawns no task and leaves every task, with its interval
\* and its bot, and monitoring_tasks as they are.
C7_StartWhileRunningIsNoOp ==
    [][event'.type = "already_running"
          => /\ tasks' = tasks
             /\ monitoring_tasks' = monitoring_tasks]_vars

\* C7 witness: start_monitoring has just been called for a user whose loop
\* is registered and alive
C7_Witness ==
    /\ event.type = "already_running"
    /\ monitoring_tasks[event.user] # 0
    /\ tasks[monitoring_tasks[event.user]].kind = "loop"
    /\ tasks[monitoring_tasks[event.user]].user = event.user

\* C8: a tick that fails (check_for_changes returns an error result, or an
\* exception reaches the loop) does not end the loop: a loop ends only by
\* cancellation, the failed tick leaves monitoring_tasks alone, every sleep
\* of the loop lasts its check_interval, and a tick starts only when the
\* loop starts or a sleep is over.
C8_FailedTickKeepsLoop ==
    [][\A t \in TaskIds :
          /\ (tasks[t].kind = "loop" /\ tasks'[t].kind # "loop")
                 => tasks[t].cancel \/ tasks[t].exc = "cancelled"
          /\ (TickReturned(t) /\ ~tasks[t].res.ok)
                 => /\ monitoring_tasks' = monitoring_tasks
                    /\ tasks'[t].kind = "loop"
                    /\ tasks'[t].interval = tasks[t].interval
          /\ (tasks[t].kind = "loop" /\ tasks[t].pc \notin SleepPcs
                 /\ tasks'[t].pc \in SleepPcs)
                 => /\ tasks'[t].wake = now + tasks[t].interval \div 60
                    /\ tasks'[t].interval = tasks[t].interval
                    /\ monitoring_tasks' = monitoring_tasks
          /\ (tasks[t].kind = "loop" /\ tasks[t].pc \in SleepPcs
                 /\ tasks'[t].pc \notin SleepPcs /\ tasks'[t].kind = "loop")
                 => /\ now >= tasks[t].wake
                    /\ tasks'[t].pc = "op_begin"
                    /\ tasks'[t].op = "track_changes"]_vars

\* C8 witness: the registered loop of a user sleeps after an exception has
\* reached it, at a later minute than its start
C8_Witness ==
    \E t \in TaskIds :
        /\ tasks[t].kind = "loop"
        /\ tasks[t].pc = "err_sleep"
        /\ monitoring_tasks[tasks[t].user] = t
        /\ now > 0

\* C9: a loop cancelled by stop_monitoring during its sleep stays as it is
\* until it ends; it ends without a notification and without touching a
\* parser, so it starts no further tick.
C9_StopDuringSleep ==
    [][\A t \in TaskIds :
          (/\ tasks[t].kind = "loop"
           /\ tasks[t].cancel
           /\ tasks[t].pc \in SleepPcs)
          => \/ tasks'[t] = tasks[t]
             \/ /\ tasks'[t] = FreeTask
                /\ event' = NoEvent
                /\ parser' = parser
                /\ \A p \in ParserIds :
                       [parsers'[p] EXCEPT !.by = 0]
                           = [parsers[p] EXCEPT !.by = 0]
                /\ last_notifications' = last_notifications]_vars

\* C9 witness: stop_monitoring has cancelled a loop that is in its sleep
\* between two ticks
C9_Witness ==
    \E t \in TaskIds :
        /\ tasks[t].kind = "loop"
        /\ tasks[t].cancel
        /\ tasks[t].pc = "sleep"
        /\ tasks[t].user \in stopped
        /\ monitoring_tasks[tasks[t].user] = 0

\* C10: the first successful tick of a loop started after a stop_monitoring
\* of the same user sends no change notification.
C10_FreshCacheAfterRestart ==
    [][\A t \in TaskIds :
          (/\ TickReturned(t)
           /\ tasks[t].res.ok
           /\ tasks[t].prev = << >>
           /\ tasks[t].user \in stopped
           /\ monitoring_tasks[tasks[t].user] = t)
          => event'.type # "change"]_vars

(***************************************************************************)
(* Properties of the parser objects                                        *)
(***************************************************************************)
\* the browser of parser object p is starting or open
BrowserUp(p) == parsers[p].state \in {"starting", "open"}

\* C11: when an operation of the service returns, no parser object that the
\* coroutine running it has created still has its browser up.
C11_SessionClosedOnReturn ==
    \A t \in TaskIds :
        tasks[t].pc = "op_return" =>
            \A p \in ParserIds : parsers[p].by = t => ~BrowserUp(p)

(***************************************************************************)
(* Properties of the factory and of the parsers' entry points              *)
(***************************************************************************)
\* C12: parse with an operation outside SUPPORTED_OPERATIONS of the parser
\* returns success False with an error naming the operation, and does not
\* touch the page.
C12_UnknownOperationFails ==
    (call.pc = "parsed"
        /\ call.operation \notin SUPPORTED_OPERATIONS(call.name))
    => /\ ~call.result.ok
       /\ call.result.error = <<"Unknown operation: ", call.operation>>
       /\ call.result.pages = 0

\* C12 witness: a parser was asked for an operation that only the other
\* parser supports, with nothing wrong on the site
C12_Witness ==
    /\ call.pc = "parsed"
    /\ call.fault = "none"
    /\ call.operation \notin SUPPORTED_OPERATIONS(call.name)
    /\ \E other \in Registered :
           call.operation \in SUPPORTED_OPERATIONS(other)

\* why create_parser(name, config_data) with this fault fails
Cause(name, fault) ==
    IF name \notin Registered THEN "unknown_scraper"
    ELSE IF fault = "ctor" THEN "construction_exception"
    ELSE IF fault = "init" THEN "initialisation_failed"
    ELSE "none"

\* C13: the value create_parser returns on a failure differs from the value
\* it returns on a failure of any other cause (unknown name, constructor
\* exception, failed initialisation), so the caller can tell the cause.
C13_CreationErrorTellsCause ==
    call.pc = "failed" =>
        \A name \in ParserNames, fault \in Faults :
            (/\ Cause(name, fault) # "none"
             /\ Cause(name, fault) # Cause(call.name, call.fault))
            => create_parser(name, call.config_data, fault) # call.created

\* C14: login() returns False whenever a required field of the parser is
\* absent (dtek: street, building; work_site: url, username, password).
C14_LoginNeedsRequiredFields ==
    (call.pc \in {"logged", "parsed"}
        /\ ~(Required(call.name)
                \subseteq Fields(call.name, call.config_data, call.global)))
    => ~call.logged_in

Emitted(workers) == {workers[k].row : k \in 1..Len(workers)}

\* the table with every detail step succeeding
AllDetailsOk(rows) ==
    [i \in 1..Len(rows) |-> [rows[i] EXCEPT !.detail = "ok"]]

\* C16: every row of the table without a details button is in the workers
\* list, without scam_details, whatever the text of its other cells.
C16_PlainRowEmitted ==
    wp.pc = "done" =>
        \A i \in 1..Len(wp.rows) :
            ~wp.rows[i].button =>
                \E k \in 1..Len(wp.workers) :
                    /\ wp.workers[k].row = i
                    /\ wp.workers[k].scam_details = << >>

\* C17: the workers list is in table order, and it holds the same rows as
\* it would if every detail step had succeeded: a failed detail step
\* removes neither its own row nor a later one.
C17_OrderAndDetailFailure ==
    wp.pc = "done" =>
        /\ \A k, l \in 1..Len(wp.workers) :
               k < l => wp.workers[k].row < wp.workers[l].row
        /\ Emitted(wp.workers)
               = Emitted(parse_reports(AllDetailsOk(wp.rows)))
        /\ \A i \in 1..Len(wp.rows) :
               (DetailRuns(wp.rows[i]) /\ IsInt(wp.rows[i].sfs_text))
                   => i \in Emitted(wp.workers)

\* C17 witness: the detail step of the first of two rows timed out, and
\* both rows are in the workers list, the first with the error in place of
\* its details
C17_Witness ==
    /\ wp.pc = "done"
    /\ Len(wp.rows) = 2
    /\ DetailRuns(wp.rows[1])
    /\ wp.rows[1].detail = "timeout"
    /\ Len(wp.workers) = 2
    /\ wp.workers[1].scam_details # << >>
    /\ wp.workers[1].scam_details[1].kind = "error"

(***************************************************************************)
(* Properties of the scan for upcoming shutdowns                           *)
(***************************************************************************)
\* the start of the slot lies in [t + 15 min, t + 30 min], and the user's
\* entry for the slot is absent or more than one hour old
Due(label, t, before) ==
    /\ SlotStart(label) >= 0
    /\ t + 15 <= SlotStart(label)
    /\ SlotStart(label) <= t + 30
    /\ (before[label] < 0 \/ t - before[label] > 60)

\* C18: a slot of today is in the upcoming notice exactly when its start
\* lies in [now + 15 min, now + 30 min], both ends included, and its entry
\* in last_notifications is absent or older than one hour; a slot in the
\* notice is stamped with now, every other entry stays as it was.
C18_UpcomingIffDue ==
    sn.pc = "done" =>
        \A label \in ScanLabels :
            /\ label \in Range(sn.upcoming)
                   <=> (label \in Range(sn.times)
                           /\ Due(label, sn.t, sn.before))
            /\ label \in Range(sn.upcoming) => sn.after[label] = sn.t
            /\ label \notin Range(sn.upcoming)
                   => sn.after[label] = sn.before[label]

\* C18 witness: a slot that starts in exactly 30 minutes is announced, and
\* another slot of today is not
C18_Witness ==
    /\ sn.pc = "done"
    /\ \E label \in Range(sn.upcoming) : SlotStart(label) = sn.t + 30
    /\ Range(sn.times) \ Range(sn.upcoming) # {}

\* the tasks that are inside parser.parse() or parser.close() on a parser
UsingSession == {t \in TaskIds : tasks[t].pc \in {"fill", "extract", "closing"}
                                    /\ tasks[t].held # 0}

\* C19: under any interleaving of the users' monitor ticks and requests, a
\* task is never inside parse() or close() on a session that another task,
\* still in flight, created.
C19_SessionOwnedByCreator ==
    \A t \in UsingSession : parsers[tasks[t].held].by \in {0, t}

\* C20: a successful result returned to a user was extracted with that
\* user's own saved address, and a user with no saved address is only ever
\* answered with the error.
C20_ResultFromOwnAddress ==
    [][event'.type = "reply" /\ event'.ok
          => /\ user_addresses[event'.user] # NoAddr
             /\ event'.src = user_addresses[event'.user]]_vars

(***************************************************************************)
(* Properties of stopping a monitor                                        *)
(***************************************************************************)
\* the pcs of a tick's extraction: initialize_parser and parser.parse()
ExtractionPcs == {"init", "login", "fill", "extract"}

\* C21: when stop_monitoring is called while the extraction of a tick is in
\* flight, the extraction is not interrupted: the next step of the loop is
\* not the delivery of a cancellation that ends the loop or the extraction.
C21_ExtractionNotInterrupted ==
    [][\A t \in TaskIds :
          (/\ tasks[t].kind = "loop" /\ tasks[t].cancel
           /\ tasks[t].pc \in ExtractionPcs
           /\ tasks'[t] # tasks[t])
          => /\ tasks'[t].kind = "loop"
             /\ tasks'[t].exc # "cancelled"]_vars

\* the loops that stop_monitoring has cancelled: alive, and no longer the
\* entry of their user in monitoring_tasks
StoppedLoops ==
    {t \in TaskIds : tasks[t].kind = "loop"
                        /\ monitoring_tasks[tasks[t].user] # t}

\* C22: once stop_monitoring(u) has cancelled the loop of u, the loop begins
\* no further tick: it never comes out of its sleep into check_for_changes.
C22_NoTickAfterStop ==
    [][\A t \in StoppedLoops :
          ~(tasks[t].pc \in SleepPcs /\ tasks'[t].pc = "op_begin")]_vars

\* C23: while a monitoring loop is in its sleep between two ticks, no
\* parser object it has created has its browser up, and self.parser does
\* not point to one.
C23_NoSessionAcrossSleep ==
    \A t \in TaskIds :
        (tasks[t].kind = "loop" /\ tasks[t].pc \in SleepPcs)
        => \A p \in ParserIds :
               parsers[p].by = t => (~BrowserUp(p) /\ parser # p)

(***************************************************************************)
(* Properties of a tick                                                    *)
(***************************************************************************)
\* C24: in a tick whose check_for_changes has failed nothing more happens:
\* no change notice and no upcoming notice is sent, and last_notifications
\* stays as it is.
C24_FailedTickIsNoOp ==
    [][\A t \in TaskIds :
          (tasks[t].kind = "loop" /\ tasks[t].failed)
          => /\ event'.type \notin {"change", "upcoming"}
             /\ last_notifications' = last_notifications]_vars

\* C25: once the monitor of a user has been stopped and not started again,
\* last_notifications holds no entry of that user.
C25_NoStampsAfterStop ==
    \A u \in stopped :
        monitoring_tasks[u] = 0
        => \A s \in Slots : last_notifications[u][s] < 0

(***************************************************************************)
(* Properties of the detail modal of parse_reports                         *)
(***************************************************************************)
\* C26: when a row of the table is done its detail modal is closed, also
\* when waiting for, reading or taking the screenshot of the modal failed.
C26_ModalClosedAfterRow ==
    wp.pc = "done" =>
        \A i \in 1..Len(wp.rows) : wp.modal[i] = "closed"

\* C27: reading the numeric field of a row never fails: every row of the
\* table is in the workers list, and its number is the first run of digits
\* of the text of its badge, 0 when the text has no digit or there is no
\* badge.
C27_NumberNeverFails ==
    wp.pc = "done" =>
        \A i \in 1..Len(wp.rows) :
            \E k \in 1..Len(wp.workers) :
                /\ wp.workers[k].row = i
                /\ wp.workers[k].sfs = _extract_number(wp.rows[i].sfs_text)

(***************************************************************************)
(* Schedule harness: DTEKParser._get_schedule(days) on a page              *)
(***************************************************************************)
\* most days a caller asks for (the service asks for 1 and for 7)
MaxDays == 2

\* _get_schedule(days): the form is filled, the table is parsed, and every
\* row of it is returned; `days` is not read
_get_schedule(page, days, filled) ==
    IF ~filled THEN [success |-> FALSE, schedule |-> << >>]
    ELSE [success |-> TRUE, schedule |-> _parse_schedule_table(page)]

InitSchedule ==
    /\ InitMon
    /\ d_old = << >> /\ d_new = << >> /\ d_changes = << >> /\ d_pc = "idle"
    /\ wp = NoCall /\ sn = NoCall
    /\ \E page \in Pages(DateTexts, TimeHeaders, MaxRows),
          days \in 1..MaxDays, filled \in BOOLEAN :
           call = [pc |-> "start", page |-> page, days |-> days,
                   filled |-> filled,
                   result |-> [success |-> FALSE, schedule |-> << >>]]

GetSchedule ==
    /\ call.pc = "start"
    /\ call' = [call EXCEPT
                   !.result = _get_schedule(call.page, call.days, call.filled),
                   !.pc = "done"]
    /\ UNCHANGED <<d_old, d_new, d_changes, d_pc, wp, sn, monVars>>

NextSchedule == GetSchedule

SpecSchedule == InitSchedule /\ [][NextSchedule]_vars

\* the day of the month of a parsed date, 0 for a text that is no date
DayOf(date) ==
    CASE date = "2024-11-21" -> 21
      [] date = "2024-11-22" -> 22
      [] OTHER -> 0

\* C28: the schedule of a successful _get_schedule(days) has one entry per
\* requested day, in ascending order of date, no date twice.
C28_OneEntryPerDay ==
    (call.pc = "done" /\ call.result.success) =>
        LET schedule == call.result.schedule
        IN /\ Len(schedule) = call.days
           /\ \A k, l \in 1..Len(schedule) :
                  k < l => DayOf(schedule[k].date) < DayOf(schedule[l].date)

(***************************************************************************)
(* Properties of the table of monitoring tasks                             *)
(***************************************************************************)
\* the monitoring loops of a user that are alive, with no cancellation
\* pending or unwinding
LiveLoops(u) ==
    {t \in Loops : /\ tasks[t].user = u
                    /\ ~tasks[t].cancel
                    /\ tasks[t].exc # "cancelled"}

\* C29: a user has at most one live monitoring loop, and has one exactly
\* when monitoring_tasks has an entry for the user.
C29_OneLoopPerEntry ==
    \A u \in Users :
        /\ Cardinality(LiveLoops(u)) <= 1
        /\ monitoring_tasks[u] # 0 <=> LiveLoops(u) # {}

(***************************************************************************)
(* Shared-service harness: calls of parse_reports that overlap on the      *)
(* one WorkParserService of the process (get_parser_service). Here wp is   *)
(* the service: self.browser, the browsers that are up, and the calls.     *)
(***************************************************************************)
\* most calls of parse_reports in flight at once
MaxCalls == 3

CallIds == 1..MaxCalls

\* the content of the reports page while the calls run: one plain row
SharedTables ==
    {rows \in ReportTables :
        Len(rows) = 1 /\ rows[1].icon = "none" /\ ~rows[1].button}

\* `page` is the browser that the page of the call belongs to, `target`
\* the browser whose close() the call awaits
IdleCall == [pc |-> "idle", page |-> 0, target |-> 0,
             result |-> [success |-> FALSE, workers |-> << >>]]

InitShared ==
    /\ InitMon
    /\ d_old = << >> /\ d_new = << >> /\ d_changes = << >> /\ d_pc = "idle"
    /\ call = NoCall /\ sn = NoCall
    /\ \E rows \in SharedTables :
           wp = [pc |-> "service", rows |-> rows, browser |-> 0, up |-> {},
                 calls |-> [c \in CallIds |-> IdleCall]]

\* parse_reports starts, _init_browser: with self.browser set the page is
\* opened in it, else the launch of a browser is awaited
CallBegin(c) ==
    /\ wp.pc = "service"
    /\ wp.calls[c].pc = "idle"
    /\ wp' = IF wp.browser # 0
             THEN [wp EXCEPT !.calls[c].pc = "work",
                             !.calls[c].page = wp.browser]
             ELSE [wp EXCEPT !.calls[c].pc = "launch"]
    /\ UNCHANGED <<d_old, d_new, d_changes, d_pc, call, sn, monVars>>

\* chromium.launch returns: self.browser is assigned the new browser, and
\* the page of the call is opened in it
BrowserLaunched(c) ==
    /\ wp.pc = "service"
    /\ wp.calls[c].pc = "launch"
    /\ wp' = [wp EXCEPT !.browser = c, !.up = @ \cup {c},
                        !.calls[c].pc = "work", !.calls[c].page = c]
    /\ UNCHANGED <<d_old, d_new, d_changes, d_pc, call, sn, monVars>>

\* login, filters and the rows are done, or a page operation has raised
\* because the browser of the page is closed (except Exception, line 268);
\* finally: _close_browser awaits self.browser.close() if self.browser
PageWorkDone(c) ==
    /\ wp.pc = "service"
    /\ wp.calls[c].pc = "work"
    /\ LET result == IF wp.calls[c].page \in wp.up
                     THEN [success |-> TRUE,
                           workers |-> parse_reports(wp.rows)]
                     ELSE [success |-> FALSE, workers |-> << >>]
       IN wp' = IF wp.browser # 0
                THEN [wp EXCEPT !.calls[c].pc = "closing",
                                !.calls[c].target = wp.browser,
                                !.calls[c].result = result]
                ELSE [wp EXCEPT !.calls[c].pc = "done",
                                !.calls[c].result = result]
    /\ UNCHANGED <<d_old, d_new, d_changes, d_pc, call, sn, monVars>>

\* self.browser.close() returns, self.browser = None, the result is
\* returned
BrowserClosed(c) ==
    /\ wp.pc = "service"
    /\ wp.calls[c].pc = "closing"
    /\ wp' = [wp EXCEPT !.up = @ \ {wp.calls[c].target}, !.browser = 0,
                        !.calls[c].pc = "done", !.calls[c].target = 0]
    /\ UNCHANGED <<d_old, d_new, d_changes, d_pc, call, sn, monVars>>

NextShared ==
    \/ \E c \in CallIds : CallBegin(c)
    \/ \E c \in CallIds : BrowserLaunched(c)
    \/ \E c \in CallIds : PageWorkDone(c)
    \/ \E c \in CallIds : BrowserClosed(c)

SpecShared == InitShared /\ [][NextShared]_vars

\* C30: overlapping calls of parse_reports do not interfere: no call closes
\* the browser in which the page of another call that is still at work was
\* opened, and the result of every call is the one the page content gives.
C30_CallsDoNotInterfere ==
    /\ [](\A c \in CallIds :
             wp.calls[c].pc = "done"
             => wp.calls[c].result
                    = [success |-> TRUE, workers |-> parse_reports(wp.rows)])
    /\ [][\A c, d \in CallIds :
             (/\ c # d
              /\ wp.calls[c].pc = "closing" /\ wp'.calls[c].pc = "done"
              /\ wp.calls[d].pc = "work")
             => wp.calls[d].page # wp.calls[c].target]_vars

====
